---- MODULE Spec2Model ----
(***************************************************************************)
(* Caesar cipher command-line program (src/capstone-main/abc.cpp).         *)
(*                                                                         *)
(* Characters are modelled by their `char' value (signed 8 bit, so the     *)
(* byte 0xE9 is -23), strings by sequences of such values, `int' by the    *)
(* 32-bit signed range.  main is modelled statement by statement; the      *)
(* call of encryptCaesarCipher is one step of main.                        *)
(***************************************************************************)
EXTENDS Integers, Sequences, FiniteSets, TLC

(* ----------------------------- bounds ---------------------------------- *)

\* longest message enumerated exhaustively over CharSet
MaxLen == 2
\* keys are drawn from -MaxKey..MaxKey and from within MaxKey of either
\* end of the int range
MaxKey == 27

(* ------------------------- machine integers ---------------------------- *)

INT_MAX == 2147483647
INT_MIN == (-2147483647) - 1

\* C++ operator% on int with a positive divisor: the remainder truncates
\* towards zero, so it has the sign of the dividend.
Rem(x, n) ==
    IF x >= 0 THEN x % n
    ELSE LET r == x % n IN IF r = 0 THEN 0 ELSE r - n

\* a + b leaves the int range (signed overflow, undefined behaviour)
AddOverflows(a, b) ==
    \/ b > 0 /\ a > INT_MAX - b
    \/ b < 0 /\ a < INT_MIN - b

\* a + b on int; where it overflows, the two's-complement wrapped value
AddInt(a, b) ==
    IF b > 0 /\ a > INT_MAX - b THEN INT_MIN + ((a - (INT_MAX - b)) - 1)
    ELSE IF b < 0 /\ a < INT_MIN - b THEN INT_MAX - (((INT_MIN - b) - a) - 1)
    ELSE a + b

\* conversion of an int to char (8 bit, signed)
ToChar(v) == ((v + 128) % 256) - 128

(* --------------------------- <cctype> ----------------------------------- *)
\* main never calls setlocale, so the "C" locale is in force: the
\* classification is that of the 26 Latin letters per case and no other
\* value of char is alphabetic.  A byte above 0x7F reaches these functions
\* as a negative int where char is signed; the C library's table for that
\* locale classifies it as non-alphabetic as well.

islower(c) == c >= 97 /\ c <= 122

\* isalpha with the lower range starting one character early
isalpha_OffByOne(c) == (c >= 96 /\ c <= 122) \/ (c >= 65 /\ c <= 90)

isalpha(c) == (c >= 97 /\ c <= 122) \/ (c >= 65 /\ c <= 90)

(* ---------------------- encryptCaesarCipher ----------------------------- *)

\* line 9: char base = islower(c) ? 'a' : 'A';
base(c) == IF islower(c) THEN 97 ELSE 65

\* line 10, the int expression c - base + key overflows
ShiftOverflows(c, key) == AddOverflows(c - base(c), key)

\* line 10 adding 'A' whatever the case of c
shiftedChar_UpperBase(c, key) ==
    ToChar(Rem(AddInt(c - base(c), key), 26) + 65)

\* line 10: char shiftedChar = ((c - base + key) % 26) + base;
shiftedChar(c, key) ==
    ToChar(Rem(AddInt(c - base(c), key), 26) + base(c))

\* the body of the range-for without its else branch
LoopBody_NoElse(encryptedMessage, c, key) ==
    IF isalpha(c)
    THEN Append(encryptedMessage, shiftedChar(c, key))
    ELSE encryptedMessage

\* lines 8-14: the body of the range-for, for one character c
LoopBody(encryptedMessage, c, key) ==
    IF isalpha(c)
    THEN Append(encryptedMessage, shiftedChar(c, key))
    ELSE Append(encryptedMessage, c)

RECURSIVE EncryptFrom(_, _, _, _)
\* lines 7-15: the range-for from position i on
EncryptFrom(encryptedMessage, message, i, key) ==
    IF i > Len(message) THEN encryptedMessage
    ELSE EncryptFrom(LoopBody(encryptedMessage, message[i], key),
                     message, i + 1, key)

\* lines 4-17
encryptCaesarCipher(message, key) == EncryptFrom(<<>>, message, 1, key)

\* some iteration of the loop evaluates line 10 outside the int range
CallOverflows(message, key) ==
    \E i \in 1..Len(message) :
        isalpha(message[i]) /\ ShiftOverflows(message[i], key)

(* ------------------------------ inputs ---------------------------------- *)

\* '0', 'A', 'Z', '`', 'a', 'z' and the non-ASCII byte 0xE9
CharSet == {48, 65, 90, 96, 97, 122, -23}

RECURSIVE SeqsUpTo(_, _)
SeqsUpTo(S, n) ==
    IF n = 0 THEN {<<>>}
    ELSE LET shorter == SeqsUpTo(S, n - 1)
         IN  shorter \cup {Append(s, x) : s \in {t \in shorter : Len(t) = n - 1}, x \in S}

\* "Hello, World!", "abcXYZ", "Test", "Shift"
Scenarios ==
    { <<72, 101, 108, 108, 111, 44, 32, 87, 111, 114, 108, 100, 33>>,
      <<97, 98, 99, 88, 89, 90>>,
      <<84, 101, 115, 116>>,
      <<83, 104, 105, 102, 116>> }

Messages == SeqsUpTo(CharSet, MaxLen) \cup Scenarios

Keys ==
    (-MaxKey .. MaxKey)
        \cup {INT_MAX - d : d \in 0..MaxKey}
        \cup {INT_MIN + d : d \in 0..MaxKey}

\* what follows the message line on standard input
KeyTokens ==
    [kind : {"int"}, val : Keys]
        \cup { [kind |-> "garbage", val |-> 0],
               [kind |-> "toobig", val |-> INT_MAX],
               [kind |-> "toosmall", val |-> INT_MIN],
               [kind |-> "eof", val |-> 0] }

(* ------------------------------- main ----------------------------------- *)

VARIABLES
    pc,               \* the statement of main to execute next
    message,          \* line 19
    key,              \* line 20
    encryptedMessage, \* line 27
    failbit,          \* cin.fail()
    out,              \* what was written to cout
    err,              \* what was written to cerr
    exitCode,         \* status returned by main
    calls,            \* number of invocations of encryptCaesarCipher
    overflowed,       \* the invocation evaluated line 10 outside int
    log               \* the events of the run, in order

vars == <<pc, message, key, encryptedMessage, failbit, out, err, exitCode,
          calls, overflowed, log>>

Line(lit, text) == [lit |-> lit, text |-> text]

\* lines 19-20: message is default-constructed, key is not initialised
Init ==
    /\ pc = "prompt1"
    /\ message = <<>>
    /\ key \in Keys
    /\ encryptedMessage = <<>>
    /\ failbit = FALSE
    /\ out = <<>>
    /\ err = <<>>
    /\ exitCode = -1
    /\ calls = 0
    /\ overflowed = FALSE
    /\ log = <<>>

\* line 21
Prompt1 ==
    /\ pc = "prompt1"
    /\ out' = Append(out, Line("Enter the message you want to encrypt: ", <<>>))
    /\ pc' = "getline"
    /\ UNCHANGED <<message, key, encryptedMessage, failbit, err, exitCode,
                   calls, overflowed, log>>

\* line 22
ReadMessage ==
    /\ pc = "getline"
    /\ \E m \in Messages : message' = m
    /\ log' = Append(log, "readMessage")
    /\ pc' = "prompt2"
    /\ UNCHANGED <<key, encryptedMessage, failbit, out, err, exitCode,
                   calls, overflowed>>

\* line 24
Prompt2 ==
    /\ pc = "prompt2"
    /\ out' = Append(out, Line("Enter the key value: ", <<>>))
    /\ pc' = "readkey"
    /\ UNCHANGED <<message, key, encryptedMessage, failbit, err, exitCode,
                   calls, overflowed, log>>

\* line 25: operator>>(int&).  A token that is an int is stored; one that
\* is no number stores 0 and one out of range stores the nearest limit,
\* both setting failbit; at end of input the sentry fails and key is not
\* written at all.
ReadKey ==
    /\ pc = "readkey"
    /\ \E tok \in KeyTokens :
          /\ key' = IF tok.kind = "eof" THEN key ELSE tok.val
          /\ failbit' = (tok.kind # "int")
    /\ log' = Append(log, "readKey")
    /\ pc' = "call"
    /\ UNCHANGED <<message, encryptedMessage, out, err, exitCode, calls,
                   overflowed>>

\* line 27, the call returns
CallReturns ==
    /\ pc = "call"
    /\ encryptedMessage' = encryptCaesarCipher(message, key)
    /\ overflowed' = CallOverflows(message, key)
    /\ calls' = calls + 1
    /\ log' = Append(log, "encrypt")
    /\ pc' = "print"
    /\ UNCHANGED <<message, key, failbit, out, err, exitCode>>

\* line 27, the signed overflow of line 10 traps
CallTraps ==
    /\ pc = "call"
    /\ CallOverflows(message, key)
    /\ overflowed' = TRUE
    /\ calls' = calls + 1
    /\ log' = Append(log, "encrypt")
    /\ pc' = "aborted"
    /\ UNCHANGED <<message, key, encryptedMessage, failbit, out, err,
                   exitCode>>

\* line 28
PrintResult ==
    /\ pc = "print"
    /\ out' = Append(out, Line("Encrypted message: ", encryptedMessage))
    /\ log' = Append(log, "print")
    /\ pc' = "return"
    /\ UNCHANGED <<message, key, encryptedMessage, failbit, err, exitCode,
                   calls, overflowed>>

\* main returning 1
Return_NonZero ==
    /\ pc = "return"
    /\ exitCode' = 1
    /\ pc' = "done"
    /\ UNCHANGED <<message, key, encryptedMessage, failbit, out, err, calls,
                   overflowed, log>>

\* line 29
Return ==
    /\ pc = "return"
    /\ exitCode' = 0
    /\ pc' = "done"
    /\ UNCHANGED <<message, key, encryptedMessage, failbit, out, err, calls,
                   overflowed, log>>

Next ==
    \/ Prompt1
    \/ ReadMessage
    \/ Prompt2
    \/ ReadKey
    \/ CallReturns
    \/ CallTraps
    \/ PrintResult
    \/ Return

Spec == Init /\ [][Next]_vars

TypeOK ==
    /\ pc \in {"prompt1", "getline", "prompt2", "readkey", "call", "print",
               "return", "done", "aborted"}
    /\ key \in Keys
    /\ failbit \in BOOLEAN
    /\ overflowed \in BOOLEAN
    /\ calls \in 0..1
    /\ Len(encryptedMessage) <= Len(message)

(* --------------------------- vocabulary --------------------------------- *)

AsciiLower(c) == c \in 97..122

AsciiUpper(c) == c \in 65..90

AsciiLetter(c) == AsciiLower(c) \/ AsciiUpper(c)

AlphabetBase(c) == IF AsciiLower(c) THEN 97 ELSE 65

\* the call of line 27 has returned its result to main
Returned == pc \in {"print", "return", "done"}

\* ((c - base + K) mod 26 + 26) mod 26 + base with the truncating
\* remainder, for c - base + K inside the int range
DoubleModReference(c, K) ==
    Rem(Rem((c - AlphabetBase(c)) + K, 26) + 26, 26) + AlphabetBase(c)

\* the same value for every K: K is reduced first, which leaves the
\* residue modulo 26 of c - base + K unchanged
NormalizedReference(c, K) ==
    Rem(Rem((c - AlphabetBase(c)) + Rem(K, 26), 26) + 26, 26) + AlphabetBase(c)

Letters(m) == {i \in 1..Len(m) : AsciiLetter(m[i])}

EncryptedLine(l) == l.lit = "Encrypted message: "

ExpectedEvents == <<"readMessage", "readKey", "encrypt", "print">>

(* ------------------------------ claims ---------------------------------- *)

\* C1: for every key, a lowercase letter of the message is encrypted to a
\* lowercase letter and an uppercase letter to an uppercase letter.
C1_CasePreserved ==
    Returned =>
        \A i \in 1..Len(message) :
            /\ AsciiLower(message[i]) => AsciiLower(encryptedMessage[i])
            /\ AsciiUpper(message[i]) => AsciiUpper(encryptedMessage[i])

\* C2: for every key, each letter of the message is encrypted to the
\* normalized-modulo reference ((c - base + K) mod 26 + 26) mod 26 + base.
C2_EqualsNormalizedReference ==
    Returned =>
        \A i \in Letters(message) :
            encryptedMessage[i] = NormalizedReference(message[i], key)

\* C3: encrypting the result again with the negated key restores the
\* message (stated for the keys whose negation is an int).
C3_RoundTrip ==
    (Returned /\ key # INT_MIN) =>
        encryptCaesarCipher(encryptedMessage, -key) = message

\* C4: the result for key K is the result for key K + 26 (stated for the
\* keys where K + 26 is an int).
C4_Period26 ==
    (Returned /\ key <= INT_MAX - 26) =>
        encryptCaesarCipher(message, key + 26) = encryptedMessage

\* C5: when the key token is not parsed as an integer, encryptCaesarCipher
\* is never invoked, no "Encrypted message: " line is printed, and the run
\* ends with a diagnostic on standard error and a non-zero exit status.
C5_InputErrorPolicy ==
    failbit =>
        /\ calls = 0
        /\ \A i \in 1..Len(out) : ~EncryptedLine(out[i])
        /\ pc = "done" => (err # <<>> /\ exitCode # 0)

\* C6: the result of encryptCaesarCipher has the length of the message;
\* the empty message gives the empty result.
C6_LengthPreserved ==
    Returned =>
        /\ Len(encryptedMessage) = Len(message)
        /\ message = <<>> => encryptedMessage = <<>>

C6_Witness ==
    /\ Returned
    /\ message = <<72, 101, 108, 108, 111, 44, 32, 87, 111, 114, 108, 100, 33>>
    /\ key = 3
    /\ encryptedMessage = <<75, 104, 111, 111, 114, 44, 32, 90, 114, 117, 111, 103, 33>>

\* C7: every position of the message that holds no ASCII letter (digit,
\* punctuation, non-ASCII byte) holds the same character in the result.
C7_NonLettersFixed ==
    Returned =>
        \A i \in 1..Len(message) :
            ~AsciiLetter(message[i]) => encryptedMessage[i] = message[i]

C7_Witness ==
    /\ Returned
    /\ key = -1
    /\ message = <<-23, 96>>
    /\ encryptedMessage = message

\* C8: for every int key and every letter, c - base + key stays inside
\* the int range, so no invocation overflows.
C8_NoOverflow == ~overflowed

\* C9: the events of a run are, in order, message read, key read, one
\* invocation of encryptCaesarCipher, output of the result; the result is
\* never printed earlier, and a run that completes ends with exit code 0.
C9_EventOrder ==
    /\ Len(log) <= Len(ExpectedEvents)
    /\ log = SubSeq(ExpectedEvents, 1, Len(log))
    /\ calls = (IF Len(log) >= 3 THEN 1 ELSE 0)
    /\ \A i \in 1..Len(out) :
          EncryptedLine(out[i]) =>
              /\ Len(log) = 4
              /\ out[i].text = encryptCaesarCipher(message, key)
    /\ pc = "done" =>
          /\ log = ExpectedEvents
          /\ EncryptedLine(out[Len(out)])
          /\ exitCode = 0

C9_Witness ==
    /\ pc = "done"
    /\ log = ExpectedEvents
    /\ message = <<97, 98, 99, 88, 89, 90>>
    /\ key = 1
    /\ out[3] = Line("Encrypted message: ", <<98, 99, 100, 89, 90, 65>>)

\* C10: for a key K with 0 <= K <= INT_MAX - 25 each letter is encrypted
\* to the double-modulo reference, a letter of the same alphabet.
C10_NonNegativeKeyAgrees ==
    (Returned /\ key >= 0 /\ key <= INT_MAX - 25) =>
        \A i \in Letters(message) :
            /\ encryptedMessage[i] = DoubleModReference(message[i], key)
            /\ encryptedMessage[i] \in
                   AlphabetBase(message[i]) .. AlphabetBase(message[i]) + 25

C10_Witness ==
    /\ Returned
    /\ key = INT_MAX - 25
    /\ message = <<122, 97>>
    /\ encryptedMessage = <<120, 121>>

====
